---- MODULE Spec2Model ----
(***************************************************************************)
(* Model of the console expense tracker (src/code.py): the ExpenseTracker  *)
(* ledger (a pandas DataFrame), its backing CSV file, and the menu loop of *)
(* main().                                                                 *)
(*                                                                         *)
(* Texts are sequences of one-character strings, so that strip,            *)
(* capitalize, float(), the CSV writer/reader and the currency format are  *)
(* computed character by character.  Amounts are counted in cents.         *)
(***************************************************************************)
EXTENDS Integers, Sequences, FiniteSets, TLC

VARIABLES pc, file, expenses, cols, today, out, result

vars == <<pc, file, expenses, cols, today, out, result>>

(***************************************************************************)
(* Bounds of the model.                                                    *)
(***************************************************************************)
MaxRecords == 2

(***************************************************************************)
(* Text helpers: str.strip, str.capitalize, comparison of str.             *)
(***************************************************************************)
Digit == <<"0", "1", "2", "3", "4", "5", "6", "7", "8", "9">>

DigitChars == {Digit[i] : i \in 1..10}

DigitVal(c) == (CHOOSE i \in 1..10 : Digit[i] = c) - 1

UpperOf(c) ==
    CASE c = "f" -> "F" [] c = "o" -> "O" [] c = "r" -> "R"
      [] c = "x" -> "X" [] c = "n" -> "N" [] c = "a" -> "A"
      [] OTHER -> c

LowerOf(c) ==
    CASE c = "F" -> "f" [] c = "O" -> "o" [] c = "R" -> "r"
      [] c = "X" -> "x" [] c = "N" -> "n" [] c = "A" -> "a"
      [] OTHER -> c

Code(c) ==
    CASE c = " " -> 32 [] c = "$" -> 36 [] c = "," -> 44 [] c = "-" -> 45
      [] c = "." -> 46 [] c \in DigitChars -> 48 + DigitVal(c)
      [] c = "A" -> 65 [] c = "F" -> 70 [] c = "N" -> 78 [] c = "O" -> 79
      [] c = "R" -> 82 [] c = "X" -> 88 [] c = "a" -> 97 [] c = "f" -> 102
      [] c = "n" -> 110 [] c = "o" -> 111 [] c = "r" -> 114 [] c = "x" -> 120
      [] OTHER -> 63

RECURSIVE LStrip(_)
LStrip(s) == IF s # << >> /\ Head(s) = " " THEN LStrip(Tail(s)) ELSE s

RECURSIVE RStrip(_)
RStrip(s) ==
    IF s # << >> /\ s[Len(s)] = " " THEN RStrip(SubSeq(s, 1, Len(s) - 1)) ELSE s

Strip(s) == RStrip(LStrip(s))

Lower(s) == [i \in 1..Len(s) |-> LowerOf(s[i])]

Capitalize(s) ==
    IF s = << >> THEN << >>
    ELSE <<UpperOf(Head(s))>> \o Lower(Tail(s))

RECURSIVE TextLess(_, _)
TextLess(a, b) ==
    IF b = << >> THEN FALSE
    ELSE IF a = << >> THEN TRUE
    ELSE IF Code(Head(a)) # Code(Head(b)) THEN Code(Head(a)) < Code(Head(b))
    ELSE TextLess(Tail(a), Tail(b))

(***************************************************************************)
(* Values held in the DataFrame.  A float is a number of cents or NaN; a   *)
(* Category/Description cell is a str or the missing value NaN.            *)
(***************************************************************************)
NaN == [nan |-> TRUE, c |-> 0]

Num(c) == [nan |-> FALSE, c |-> c]

NA == [na |-> TRUE, s |-> << >>]

Str(s) == [na |-> FALSE, s |-> s]

NaT == [k |-> "nat", day |-> 0, tod |-> 0]

Timestamp(d, t) == [k |-> "ts", day |-> d, tod |-> t]

DateObj(d) == [k |-> "date", day |-> d, tod |-> 0]

DateStr(d, t) == [k |-> "str", day |-> d, tod |-> t]

(***************************************************************************)
(* float(amount): surrounding whitespace is ignored; "nan" in any case is  *)
(* accepted; otherwise an optional sign, digits and an optional fraction.  *)
(* Anything else raises ValueError.  Digits after the second decimal are   *)
(* below the resolution of the model and are dropped.                      *)
(***************************************************************************)
AllDigits(s) == \A i \in 1..Len(s) : s[i] \in DigitChars

RECURSIVE DigitsVal(_)
DigitsVal(s) ==
    IF s = << >> THEN 0
    ELSE 10 * DigitsVal(SubSeq(s, 1, Len(s) - 1)) + DigitVal(s[Len(s)])

DotPos(s) ==
    IF \E i \in 1..Len(s) : s[i] = "."
    THEN CHOOSE i \in 1..Len(s) : s[i] = "." /\ \A j \in 1..(i - 1) : s[j] # "."
    ELSE 0

ValueError == [ok |-> FALSE, v |-> NaN]

Parsed(v) == [ok |-> TRUE, v |-> v]

ParseUnsigned(s) ==
    LET p == DotPos(s)
        ip == IF p = 0 THEN s ELSE SubSeq(s, 1, p - 1)
        fp == IF p = 0 THEN << >> ELSE SubSeq(s, p + 1, Len(s))
        f2 == SubSeq(fp \o <<"0", "0">>, 1, 2)
    IN  IF AllDigits(ip) /\ AllDigits(fp) /\ Len(ip) + Len(fp) > 0
        THEN Parsed(Num(100 * DigitsVal(ip) + DigitsVal(f2)))
        ELSE ValueError

Negate(r) == IF r.ok THEN Parsed(Num(0 - r.v.c)) ELSE r

ParseFloat(s) ==
    LET t == Strip(s)
        b == IF t # << >> /\ Head(t) \in {"+", "-"} THEN Tail(t) ELSE t
    IN  IF Lower(b) = <<"n", "a", "n">> THEN Parsed(NaN)
        ELSE IF t # << >> /\ Head(t) = "-" THEN Negate(ParseUnsigned(b))
        ELSE ParseUnsigned(b)

(***************************************************************************)
(* Number formatting: repr of a float as to_csv writes it, and the display *)
(* format '${:,.2f}'.                                                      *)
(***************************************************************************)
RECURSIVE Digits(_)
Digits(n) ==
    IF n < 10 THEN <<Digit[n + 1]>>
    ELSE Digits(n \div 10) \o <<Digit[(n % 10) + 1]>>

RECURSIVE Grouped(_)
Grouped(n) ==
    IF n < 1000 THEN Digits(n)
    ELSE Grouped(n \div 1000) \o <<",">>
         \o <<Digit[((n \div 100) % 10) + 1], Digit[((n \div 10) % 10) + 1],
              Digit[(n % 10) + 1]>>

Abs(n) == IF n < 0 THEN 0 - n ELSE n

Sign(n) == IF n < 0 THEN <<"-">> ELSE << >>

FloatRepr(c) ==
    LET m == Abs(c)
        f == m % 100
    IN  Sign(c) \o Digits(m \div 100) \o <<".">>
        \o (IF f % 10 = 0 THEN <<Digit[(f \div 10) + 1]>>
            ELSE <<Digit[(f \div 10) + 1], Digit[(f % 10) + 1]>>)

CurrencyFormat(a) ==
    IF a.nan THEN <<"$", "n", "a", "n">>
    ELSE LET m == Abs(a.c)
         IN  <<"$">> \o Sign(a.c) \o Grouped(m \div 100) \o <<".">>
             \o <<Digit[((m % 100) \div 10) + 1], Digit[(m % 10) + 1]>>

(***************************************************************************)
(* The backing CSV file.  kind is "missing" (no such path), "empty" (zero  *)
(* bytes), "garbage" (content the CSV parser rejects) or "table" (a header *)
(* and rows of text cells).  A Date cell is an ISO date, an ISO date with  *)
(* a time of day, empty, or text that is no date.                          *)
(***************************************************************************)
Columns == {"Date", "Category", "Description", "Amount"}

NoCell == [k |-> "empty", day |-> 0, tod |-> 0]

IsoCell(d) == [k |-> "iso", day |-> d, tod |-> 0]

IsoTimeCell(d, t) == [k |-> "isotime", day |-> d, tod |-> t]

JunkCell == [k |-> "junk", day |-> 0, tod |-> 0]

Row(d, c, s, a) == [Date |-> d, Category |-> c, Description |-> s, Amount |-> a]

MissingFile == [kind |-> "missing", header |-> {}, rows |-> << >>]

EmptyFile == [kind |-> "empty", header |-> {}, rows |-> << >>]

GarbageFile == [kind |-> "garbage", header |-> {}, rows |-> << >>]

Table(h, r) == [kind |-> "table", header |-> h, rows |-> r]

\* Values the CSV reader turns into the missing value (pandas' default
\* na_values, restricted to the alphabet of the model).
NAStrings == {<< >>, <<"N", "A">>, <<"n", "a", "n">>, <<"N", "a", "N">>}

ReadText(t) == IF t \in NAStrings THEN NA ELSE Str(t)

\* read_csv followed by pd.to_numeric(errors='coerce') on one Amount cell.
ReadAmount(t) ==
    IF t \in NAStrings THEN NaN
    ELSE IF ParseFloat(t).ok THEN ParseFloat(t).v ELSE NaN

\* parse_dates=['Date']: a column with one unparsable cell is left as text.
ReadDate(cell, junk) ==
    CASE cell.k = "empty" -> NaT
      [] junk -> DateStr(cell.day, cell.tod)
      [] cell.k = "iso" -> Timestamp(cell.day, 0)
      [] OTHER -> Timestamp(cell.day, cell.tod)

ReadRows(f) ==
    LET junk == \E i \in DOMAIN f.rows : f.rows[i].Date.k = "junk"
    IN  [i \in DOMAIN f.rows |->
            [Date |-> ReadDate(f.rows[i].Date, junk),
             Category |-> IF "Category" \in f.header
                          THEN ReadText(f.rows[i].Category) ELSE NA,
             Description |-> IF "Description" \in f.header
                             THEN ReadText(f.rows[i].Description) ELSE NA,
             Amount |-> ReadAmount(f.rows[i].Amount)]]

\* ExpenseTracker.__init__: the ledger a process builds from the file, the
\* message it prints, and whether line 35 raises out of the constructor.
Construct(f) ==
    CASE f.kind = "missing" ->
           [raised |-> FALSE, expenses |-> << >>, cols |-> Columns, out |-> "no_file"]
      [] f.kind = "empty" ->
           [raised |-> FALSE, expenses |-> << >>, cols |-> Columns, out |-> "csv_empty"]
      [] f.kind = "garbage" \/ (f.kind = "table" /\ "Date" \notin f.header) ->
           [raised |-> FALSE, expenses |-> << >>, cols |-> Columns, out |-> "load_error"]
      [] "Amount" \notin f.header ->
           [raised |-> TRUE, expenses |-> << >>, cols |-> f.header, out |-> "KeyError_Amount"]
      [] OTHER ->
           [raised |-> FALSE, expenses |-> ReadRows(f), cols |-> f.header, out |-> "loaded"]

(***************************************************************************)
(* save_expenses: the Date column is normalised to plain dates, then the   *)
(* whole frame is written over the file.                                   *)
(***************************************************************************)
ToDatetimeRaises(df) == \E i \in DOMAIN df : df[i].Date.k = "str"

NormalizeDate(d) == IF d.k \in {"ts", "date"} THEN DateObj(d.day) ELSE d

\* Faulty variant: rows whose date is missing are dropped while normalising.
NormalizeDates_DropNaT(df) ==
    SelectSeq([i \in DOMAIN df |-> [df[i] EXCEPT !.Date = NormalizeDate(@)]],
              LAMBDA r : r.Date.k # "nat")

NormalizeDates(df) == [i \in DOMAIN df |-> [df[i] EXCEPT !.Date = NormalizeDate(@)]]

CsvDate(d) == IF d.k = "date" THEN IsoCell(d.day) ELSE NoCell

CsvText(v) == IF v.na THEN << >> ELSE v.s

CsvFloat(a) == IF a.nan THEN << >> ELSE FloatRepr(a.c)

Snapshot(df, cs) ==
    Table(cs, [i \in DOMAIN df |->
                 Row(CsvDate(df[i].Date),
                     IF "Category" \in cs THEN CsvText(df[i].Category) ELSE << >>,
                     IF "Description" \in cs THEN CsvText(df[i].Description) ELSE << >>,
                     CsvFloat(df[i].Amount))])

(***************************************************************************)
(* groupby('Category')['Amount'].sum().sort_values(ascending=False):       *)
(* rows whose key is missing are dropped by groupby, keys come out in      *)
(* ascending order, sum skips NaN, and the descending sort keeps tied keys *)
(* in that order.                                                          *)
(***************************************************************************)
\* A cell of the summary: a float total, or the text it is formatted to.
FloatCell(n) == [t |-> "float", s |-> << >>, n |-> n]

StrCell(s) == [t |-> "str", s |-> s, n |-> 0]

RECURSIVE SumAmounts(_)
SumAmounts(df) ==
    IF df = << >> THEN 0
    ELSE (IF Head(df).Amount.nan THEN 0 ELSE Head(df).Amount.c) + SumAmounts(Tail(df))

GroupKeys(df) == {df[i].Category.s : i \in {j \in DOMAIN df : ~df[j].Category.na}}

GroupRows(df, key) == SelectSeq(df, LAMBDA r : ~r.Category.na /\ r.Category.s = key)

GroupSum(df, key) == SumAmounts(GroupRows(df, key))

Before(df, a, b) ==
    \/ GroupSum(df, a) > GroupSum(df, b)
    \/ GroupSum(df, a) = GroupSum(df, b) /\ TextLess(a, b)

RECURSIVE SortedGroups(_, _)
SortedGroups(df, keys) ==
    IF keys = {} THEN << >>
    ELSE LET first == CHOOSE a \in keys : \A b \in keys \ {a} : Before(df, a, b)
         IN  <<[Category |-> first, Amount |-> FloatCell(GroupSum(df, first))]>>
             \o SortedGroups(df, keys \ {first})

CategoryTotals(df) == SortedGroups(df, GroupKeys(df))

\* category_summary['Amount'].map('${:,.2f}'.format)
FormatTotals(t) ==
    [i \in DOMAIN t |-> [Category |-> t[i].Category,
                         Amount |-> StrCell(CurrencyFormat(Num(t[i].Amount.n)))]]

DisplayRows(df) ==
    [i \in DOMAIN df |-> [df[i] EXCEPT !.Amount = CurrencyFormat(@)]]

(***************************************************************************)
(* What the last operation printed (out) and produced (result).            *)
(***************************************************************************)
NoResult ==
    [returned |-> "None", summary |-> << >>, total |-> 0, chart |-> << >>,
     view |-> << >>]

\* Faulty variant: the frame is returned before its Amount column is formatted.
SummarizeByCategory_Unformatted(df) ==
    IF df = << >> THEN NoResult
    ELSE [NoResult EXCEPT !.returned = "frame",
                          !.summary = CategoryTotals(df),
                          !.total = SumAmounts(df)]

\* summarize_by_category
SummarizeByCategory(df) ==
    IF df = << >> THEN NoResult
    ELSE [NoResult EXCEPT !.returned = "frame",
                          !.summary = FormatTotals(CategoryTotals(df)),
                          !.total = SumAmounts(df)]

\* view_all_expenses
ViewAllExpenses(df) ==
    IF df = << >> THEN NoResult ELSE [NoResult EXCEPT !.view = DisplayRows(df)]

\* visualize_expenses
VisualizeExpenses(df) ==
    IF df = << >> THEN NoResult ELSE [NoResult EXCEPT !.chart = CategoryTotals(df)]

\* add_expense: the outcome of the validation and the record it would append.
AmountOf(input) == IF input.t = "num" THEN Parsed(input.v) ELSE ParseFloat(input.s)

\* Faulty variant: the check "amount < 0", which lets zero through.
NonPositive_Strict(a) == ~a.nan /\ a.c < 0

NonPositive(a) == ~a.nan /\ a.c <= 0

\* Faulty variant: capitalize() before strip(), and the description as typed.
NewExpense_CapitalizeFirst(category, description, amount, now) ==
    [Date |-> DateObj(now),
     Category |-> Str(Strip(Capitalize(category))),
     Description |-> Str(description),
     Amount |-> amount]

NewExpense(category, description, amount, now) ==
    [Date |-> DateObj(now),
     Category |-> Str(Capitalize(Strip(category))),
     Description |-> Str(Strip(description)),
     Amount |-> amount]

(***************************************************************************)
(* Inputs: what the user types at the prompts (text), and numbers a caller *)
(* can hand to add_expense directly.                                       *)
(***************************************************************************)
TextInput(s) == [t |-> "text", s |-> s, v |-> NaN]

NumInput(v) == [t |-> "num", s |-> << >>, v |-> v]

CategoryInputs == {<<" ", "f", "O">>, <<" ">>}

DescriptionInputs == {<<"x", " ">>, << >>}

AmountInputs ==
    {TextInput(<<" ", "5">>), TextInput(<<"-", "5">>), TextInput(<<"x">>),
     TextInput(<<"n", "a", "n">>), NumInput(Num(500)), NumInput(Num(0))}

\* Calendar dates the clock can show during the runs of the program.
Days == {1, 2}

\* States of the backing file before the first run.
InitialFiles ==
    {MissingFile, EmptyFile, GarbageFile,
     Table(Columns \ {"Date"}, <<Row(NoCell, <<"R">>, <<"x">>, <<"5">>)>>),
     Table(Columns \ {"Amount"}, <<Row(IsoCell(1), <<"R">>, <<"x">>, << >>)>>),
     Table(Columns \ {"Category"}, <<Row(IsoCell(1), << >>, <<"x">>, <<"5">>)>>),
     Table(Columns, <<Row(JunkCell, <<"R">>, <<"x">>, <<"5", ".", "5">>)>>),
     Table(Columns, <<Row(IsoTimeCell(1, 1), <<"F", "o">>, <<"x">>, <<"1", "0">>),
                      Row(NoCell, << >>, <<"x">>, <<"x">>)>>)}

Init ==
    /\ pc = "start"
    /\ file \in InitialFiles
    /\ expenses = << >>
    /\ cols = {}
    /\ today = 1
    /\ out = "none"
    /\ result = NoResult

(***************************************************************************)
(* main(): construction, then one action per menu choice.                  *)
(***************************************************************************)
\* tracker = ExpenseTracker(), at the start of a run of the program.
Launch ==
    /\ pc \in {"start", "exited"}
    /\ LET c == Construct(file)
       IN  /\ pc' = IF c.raised THEN "crashed" ELSE "menu"
           /\ expenses' = c.expenses
           /\ cols' = c.cols
           /\ out' = c.out
    /\ result' = NoResult
    /\ UNCHANGED <<file, today>>

\* The calendar date that datetime.now() reports moves on.
Tick ==
    /\ today' \in {d \in Days : d > today}
    /\ UNCHANGED <<pc, file, expenses, cols, out, result>>

\* Choice 1: add_expense(category, description, amount).
AddExpense(category, description, input) ==
    /\ pc = "menu"
    /\ Len(expenses) < MaxRecords
    /\ LET a == AmountOf(input)
       IN  IF ~a.ok
           THEN /\ out' = "invalid_amount"
                /\ UNCHANGED <<expenses, cols>>
           ELSE IF NonPositive(a.v)
           THEN /\ out' = "must_be_positive"
                /\ UNCHANGED <<expenses, cols>>
           ELSE /\ expenses' = Append(expenses,
                                      NewExpense(category, description, a.v, today))
                /\ cols' = cols \cup Columns
                /\ out' = "added"
    /\ result' = NoResult
    /\ UNCHANGED <<pc, file, today>>

\* Choice 2: view_all_expenses().
ViewAll ==
    /\ pc = "menu"
    /\ out' = IF expenses = << >> THEN "no_view" ELSE "view"
    /\ result' = ViewAllExpenses(expenses)
    /\ UNCHANGED <<pc, file, expenses, cols, today>>

\* Choice 3: summarize_by_category(); groupby raises KeyError out of main
\* when the frame has no Category column.
Summarize ==
    /\ pc = "menu"
    /\ IF expenses # << >> /\ "Category" \notin cols
       THEN /\ pc' = "crashed"
            /\ out' = "KeyError_Category"
            /\ result' = NoResult
       ELSE /\ pc' = pc
            /\ out' = IF expenses = << >> THEN "no_summary" ELSE "summary"
            /\ result' = SummarizeByCategory(expenses)
    /\ UNCHANGED <<file, expenses, cols, today>>

\* Choice 4: visualize_expenses().
Visualize ==
    /\ pc = "menu"
    /\ IF expenses # << >> /\ "Category" \notin cols
       THEN /\ pc' = "crashed"
            /\ out' = "KeyError_Category"
            /\ result' = NoResult
       ELSE /\ pc' = pc
            /\ out' = IF expenses = << >> THEN "cannot_visualize"
                      ELSE IF CategoryTotals(expenses) = << >> THEN "summary_failed"
                      ELSE "chart"
            /\ result' = VisualizeExpenses(expenses)
    /\ UNCHANGED <<file, expenses, cols, today>>

\* Choice 5: save_expenses(), then break.  io is what the file system does
\* with the write: it succeeds, it is refused before the file is opened, or
\* it fails after the file was truncated.
SaveAndExit(io) ==
    /\ pc = "menu"
    /\ IF ToDatetimeRaises(expenses)
       THEN /\ out' = "save_failed"
            /\ UNCHANGED <<expenses, file>>
       ELSE /\ expenses' = NormalizeDates(expenses)
            /\ out' = IF io = "ok" THEN "saved" ELSE "save_failed"
            /\ file' = CASE io = "ok" -> Snapshot(expenses', cols)
                         [] io = "denied" -> file
                         [] OTHER -> EmptyFile
    /\ pc' = "exited"
    /\ result' = NoResult
    /\ UNCHANGED <<cols, today>>

\* Faulty variant: choice 6 falls through to the save of choice 5.
ExitWithoutSaving_Saves ==
    /\ pc = "menu"
    /\ pc' = "exited"
    /\ out' = "exit_without_saving"
    /\ result' = NoResult
    /\ file' = Snapshot(expenses, cols)
    /\ UNCHANGED <<expenses, cols, today>>

\* Choice 6: exit without saving.
ExitWithoutSaving ==
    /\ pc = "menu"
    /\ pc' = "exited"
    /\ out' = "exit_without_saving"
    /\ result' = NoResult
    /\ UNCHANGED <<file, expenses, cols, today>>

\* Any other choice.
InvalidChoice ==
    /\ pc = "menu"
    /\ out' = "invalid_choice"
    /\ result' = NoResult
    /\ UNCHANGED <<pc, file, expenses, cols, today>>

Next ==
    \/ Launch
    \/ Tick
    \/ \E category \in CategoryInputs, description \in DescriptionInputs,
          input \in AmountInputs : AddExpense(category, description, input)
    \/ ViewAll
    \/ Summarize
    \/ Visualize
    \/ \E io \in {"ok", "denied", "truncated"} : SaveAndExit(io)
    \/ ExitWithoutSaving
    \/ InvalidChoice

Spec == Init /\ [][Next]_vars

(***************************************************************************)
(* Properties.                                                             *)
(***************************************************************************)
Last(s) == s[Len(s)]

Positive(a) == ~a.nan /\ a.c > 0

\* Dates compared at calendar-date granularity.
SameDay(d, e) ==
    IF d.k \in {"ts", "date"} /\ e.k \in {"ts", "date"} THEN d.day = e.day ELSE d = e

SameRecord(r, q) ==
    /\ SameDay(r.Date, q.Date)
    /\ r.Category = q.Category
    /\ r.Description = q.Description
    /\ r.Amount = q.Amount

SameRecords(a, b) ==
    /\ Len(a) = Len(b)
    /\ \A i \in DOMAIN a : SameRecord(a[i], b[i])

PrefixModDates(a, b) == Len(a) <= Len(b) /\ SameRecords(a, SubSeq(b, 1, Len(a)))

\* The amount input is text that float() rejects, or a value <= 0.
Rejected(input) ==
    \/ ~AmountOf(input).ok
    \/ ~AmountOf(input).v.nan /\ AmountOf(input).v.c <= 0

\* The amount input is a number > 0.
Valid(input) == AmountOf(input).ok /\ Positive(AmountOf(input).v)

RejectedInputs == {input \in AmountInputs : Rejected(input)}

ValidInputs == {input \in AmountInputs : Valid(input)}

\* C1: every record that add creates has an amount strictly greater than 0.
C1_AddedAmountIsPositive ==
    out = "added" => Positive(Last(expenses).Amount)

\* C2: an add whose amount input is non-numeric text or parses to a value
\* <= 0 leaves the record sequence and the backing file exactly as they were.
C2_RejectedAddIsNoOp ==
    [][\/ expenses' = expenses /\ file' = file
       \/ \A category \in CategoryInputs, description \in DescriptionInputs,
             input \in RejectedInputs :
             ~AddExpense(category, description, input)]_vars

C2_Witness ==
    /\ pc = "menu"
    /\ out = "must_be_positive"
    /\ expenses # << >>

\* C3: an add with a valid input appends exactly one record after the
\* unchanged previous records; its category is the trimmed, then capitalized
\* input, its description the trimmed input, its amount the parsed amount and
\* its date the current date.
C3_ValidAddAppendsOne ==
    [][\A category \in CategoryInputs, description \in DescriptionInputs,
          input \in ValidInputs :
          AddExpense(category, description, input)
          => /\ Len(expenses') = Len(expenses) + 1
             /\ SubSeq(expenses', 1, Len(expenses)) = expenses
             /\ Last(expenses').Category = Str(Capitalize(Strip(category)))
             /\ Last(expenses').Description = Str(Strip(description))
             /\ Last(expenses').Amount = AmountOf(input).v
             /\ Last(expenses').Date = DateObj(today)]_vars

C3_Witness ==
    /\ out = "added"
    /\ Len(expenses) >= 2
    /\ Last(expenses).Category = Str(<<"F", "o">>)
    /\ Last(expenses).Description = Str(<<"x">>)
    /\ Last(expenses).Amount = Num(500)
    /\ Last(expenses).Date = DateObj(2)

\* C4: a successful save followed by the construction of a new ledger from
\* the same path yields the records that were saved, in the same order.
C4_SaveLoadRoundTrip ==
    [][(pc = "exited" /\ out = "saved" /\ pc' # "exited")
       => (pc' = "menu" /\ SameRecords(expenses', expenses))]_vars

\* C5: construction never raises; a missing, empty or malformed file (one
\* that is not a table with the four columns) gives an empty ledger, and a
\* well-formed file gives one record per row, an amount that is no number
\* being kept as a missing value.
WellFormed(f) == f.kind = "table" /\ f.header = Columns

C5_ConstructionNeverRaises ==
    [][(pc \in {"start", "exited"} /\ pc' # pc)
       => /\ pc' = "menu"
          /\ ~WellFormed(file) => expenses' = << >>
          /\ WellFormed(file) =>
               /\ Len(expenses') = Len(file.rows)
               /\ \A i \in DOMAIN file.rows :
                    expenses'[i].Amount = ReadAmount(file.rows[i].Amount)]_vars

\* C6: the summary of a non-empty ledger has one group for each distinct
\* category value of the records, each with the sum of the non-missing
\* amounts of its records, in non-increasing order of total, and the grand
\* total is the sum of the non-missing amounts of all records; an empty
\* ledger gives no summary.
TotalOf(df, c) == SumAmounts(SelectSeq(df, LAMBDA r : r.Category = c))

C6_SummaryGroupsAllRecords ==
    /\ out = "summary" =>
         LET s == result.summary
         IN  /\ result.returned = "frame"
             /\ {Str(s[i].Category) : i \in DOMAIN s}
                  = {expenses[i].Category : i \in DOMAIN expenses}
             /\ \A i, j \in DOMAIN s : s[i].Category = s[j].Category => i = j
             /\ \A i \in DOMAIN s :
                  s[i].Amount.s
                    = CurrencyFormat(Num(TotalOf(expenses, Str(s[i].Category))))
             /\ \A i \in DOMAIN s : i < Len(s) =>
                  TotalOf(expenses, Str(s[i].Category))
                    >= TotalOf(expenses, Str(s[i + 1].Category))
             /\ result.total = SumAmounts(expenses)
    /\ out = "no_summary" =>
         expenses = << >> /\ result.returned = "None" /\ result.summary = << >>

\* C7 as stated: what summarize returns is the sequence of (category, numeric
\* total) pairs that visualize computes for the chart.
C7_SummaryIsChartData ==
    out = "summary" => result.summary = VisualizeExpenses(expenses).chart

\* C7 as amended: what summarize returns is the sequence of (category,
\* formatted total) pairs: pair for pair and in the same order it has the
\* categories of the chart data, and each total is the '${:,.2f}' text of the
\* numeric total in the chart data.
C7_SummaryIsFormattedChartData ==
    out = "summary" =>
      LET s == result.summary
          c == VisualizeExpenses(expenses).chart
      IN  /\ Len(s) = Len(c)
          /\ \A i \in DOMAIN s :
               /\ s[i].Category = c[i].Category
               /\ s[i].Amount.t = "str"
               /\ c[i].Amount.t = "float"
               /\ s[i].Amount.s = CurrencyFormat(Num(c[i].Amount.n))

C7_Witness ==
    /\ out = "summary"
    /\ Len(result.summary) = 2
    /\ result.summary[1].Category = <<"R">>
    /\ result.summary[1].Amount.s = <<"$", "5", ".", "5", "0">>
    /\ result.summary[2].Category = <<"F", "o">>
    /\ result.summary[2].Amount.s = <<"$", "5", ".", "0", "0">>

\* C8: the backing file changes only in the save step of choice 5; an exit
\* without saving leaves it as it is; a successful save replaces it by a
\* table with one row per record of the ledger, in order.
C8_FileWrittenOnlyBySave ==
    [][/\ file' # file => (pc = "menu" /\ pc' = "exited"
                           /\ out' \in {"saved", "save_failed"})
       /\ (pc = "menu" /\ out' = "exit_without_saving") => file' = file
       /\ (pc = "menu" /\ pc' = "exited" /\ out' = "saved")
          => /\ file'.kind = "table"
             /\ file'.header = cols
             /\ Len(file'.rows) = Len(expenses)
             /\ \A i \in DOMAIN expenses :
                  /\ file'.rows[i].Date = CsvDate(NormalizeDate(expenses[i].Date))
                  /\ file'.rows[i].Amount = CsvFloat(expenses[i].Amount)
                  /\ "Category" \in cols
                     => file'.rows[i].Category = CsvText(expenses[i].Category)
                  /\ "Description" \in cols
                     => file'.rows[i].Description
                          = CsvText(expenses[i].Description)]_vars

C8_Witness ==
    /\ pc = "exited"
    /\ out = "exit_without_saving"
    /\ file = MissingFile
    /\ Len(expenses) >= 2

\* C9: after a load failure, an invalid amount, an invalid choice or a save
\* failure the menu prompts again.
FailureSignals ==
    {"no_file", "csv_empty", "load_error", "invalid_amount", "must_be_positive",
     "invalid_choice", "save_failed"}

C9_FailureReturnsToMenu ==
    out \in FailureSignals => pc = "menu"

\* C10: within a run the records of an earlier state are a prefix of the
\* records of every later state (dates compared by calendar date), and only
\* an add that succeeds lengthens the sequence.
C10_LedgerOnlyGrows ==
    [][pc = "menu"
       => /\ PrefixModDates(expenses, expenses')
          /\ out' # "added" => Len(expenses') = Len(expenses)
          /\ out' \in {"view", "summary", "chart", "summary_failed"}
             => expenses' = expenses]_vars

C10_Witness ==
    /\ pc = "exited"
    /\ out = "saved"
    /\ Len(expenses) >= 2
    /\ expenses[1].Date = DateObj(1)
    /\ Last(expenses).Date = DateObj(2)
    /\ Len(file.rows) = Len(expenses)

====
